---- MODULE Spec2Model ----
(***************************************************************************)
(* PainScraper: the record store (database.py), the response parser and    *)
(* the schema validator (classifier.py, classifier_cloud.py) and the batch *)
(* orchestrator (classify_unclassified, classify_unclassified_cloud).      *)
(*                                                                         *)
(* A Python value is a record tagged with its type in field t, its payload *)
(* in a field named after the type.  SQL NULL is Python None.  A text (a   *)
(* model reply, a stringified exception, a raw_response) is described      *)
(* under Text below.                                                       *)
(***************************************************************************)
EXTENDS Integers, Sequences, FiniteSets, TLC

VARIABLES
    posts,            \* table posts, in rowid order
    classifications,  \* table classifications, a set of rows
    last,             \* the most recent call of the store's API and its result
    latest,           \* history: post_id -> arguments of the most recent
                      \*   successful insert_classification for it
    pc,               \* position of the orchestrator run
    batch,            \* the run's local `posts` (the fetched list)
    idx,              \* classify_batch: posts classified so far
    results,          \* classify_batch: list of (post_id, classification)
    calls,            \* history: the backend's outcome for each post of the batch
    pidx,             \* classify_unclassified: results persisted so far
    classified,       \* classify_unclassified: counter
    pain_points,      \* classify_unclassified: counter
    ret,              \* what the run returned, or the exception that ended it
    run_limit,        \* classify_unclassified: the `limit` the run was given
    log,              \* history: what the run has done, in order
    vin,              \* validator check: the input
    vout,             \* validator check: the outcome
    reply,            \* parser check: a reply text and the object inside it
    parsed,           \* parser check: what the parser made of them
    writers,          \* two scrapers inside insert_post
    runs,             \* two orchestrator runs on one store
    tw,               \* a TwitterScraper instance and its scrape_all
    gp                \* a call of _get_page

storeVars == <<posts, classifications, last, latest>>
runVars   == <<pc, batch, idx, results, calls, pidx, classified, pain_points, ret,
               run_limit, log>>
valVars   == <<vin, vout>>
parseVars == <<reply, parsed>>
otherVars == <<writers, runs, tw, gp>>
vars      == <<posts, classifications, last, latest, pc, batch, idx, results,
               calls, pidx, classified, pain_points, ret, run_limit, log,
               vin,
               vout, reply, parsed, writers, runs, tw, gp>>

(***************************************************************************)
(* Bounds of the model.                                                    *)
(***************************************************************************)
MaxPosts == 3        \* stored posts
MaxTime  == 2        \* distinct readings of datetime.now()
MaxLimit == 2        \* largest `limit` argument tried
MaxRunPosts == 2     \* stored posts when the orchestrator runs

Min(a, b) == IF a < b THEN a ELSE b
Max(a, b) == IF a > b THEN a ELSE b

(***************************************************************************)
(* Python values.                                                          *)
(***************************************************************************)
None       == [t |-> "None"]
PyBool(b)  == [t |-> "bool", b |-> b]
PyInt(n)   == [t |-> "int", n |-> n]
PyStr(s)   == [t |-> "str", s |-> s]
PyInf      == [t |-> "float", f |-> "inf"]
PyList(s)  == [t |-> "list", items |-> s]
PyDict(f)  == [t |-> "dict", d |-> f]

\* bool(x)
Truthy(x) ==
    CASE x.t = "None"  -> FALSE
      [] x.t = "bool"  -> x.b
      [] x.t = "int"   -> x.n # 0
      [] x.t = "float" -> TRUE
      [] x.t = "str"   -> x.s # ""
      [] x.t = "list"  -> Len(x.items) > 0
      [] x.t = "dict"  -> DOMAIN x.d # {}

\* a or b
PyOr(a, b) == IF Truthy(a) THEN a ELSE b

\* type(x).__name__, as it appears in the messages of AttributeError
TypeName(x) == IF x.t = "None" THEN "NoneType" ELSE x.t

\* d.get(k) and d.get(k, default) of a dict d
DictGetDefault(d, k, default) == IF k \in DOMAIN d.d THEN d.d[k] ELSE default
DictGet(d, k) == DictGetDefault(d, k, None)

(***************************************************************************)
(* Strings of the posts are sequences of characters.                       *)
(***************************************************************************)
Chars(x) == [t |-> "str", chars |-> x]
Rep(c, n) == [i \in 1..n |-> c]

\* content[:n]
Prefix(s, n) == SubSeq(s, 1, Min(n, Len(s)))

\* f"{x}" of a str or of None
Format(x) == IF x.t = "None" THEN <<"N", "o", "n", "e">> ELSE x.chars

HashPrefixLen == 500

\* get_content_hash: the digest is taken to be collision-free on the combined
\* string, so it is represented by the string it digests.
get_content_hash(source, title, content) ==
    [sha256_32 |-> Format(source) \o <<":">> \o Format(title) \o <<":">>
                     \o Prefix(content.chars, HashPrefixLen)]

\* A check that never finds the stored fingerprint.
post_exists_never(content_hash) == FALSE

\* post_exists: SELECT 1 FROM posts WHERE content_hash = ?
post_exists(content_hash) ==
    \E i \in 1..Len(posts) : posts[i].content_hash = content_hash

\* INSERT INTO posts ...: content_hash is UNIQUE; id is AUTOINCREMENT and no
\* row is ever deleted, so the new id is the row count plus one.
SqlInsertPost(content_hash, source, title, content, now) ==
    IF \E i \in 1..Len(posts) : posts[i].content_hash = content_hash
    THEN [raised |-> TRUE, exc |-> "IntegrityError", table |-> posts,
          lastrowid |-> 0]
    ELSE [raised |-> FALSE, exc |-> "",
          table |-> Append(posts, [id |-> Len(posts) + 1,
                                   content_hash |-> content_hash,
                                   source |-> source, title |-> title,
                                   content |-> content, scraped_at |-> now]),
          lastrowid |-> Len(posts) + 1]

\* A call of the store's API, as `last` records it: what was called, whether it
\* raised, and what it returned.
Returned(op, value, info) ==
    [call |-> op, raised |-> FALSE, exc |-> "", ret |-> value, info |-> info]
Raised(op, exc, info) ==
    [call |-> op, raised |-> TRUE, exc |-> exc, ret |-> None, info |-> info]

\* An insert_post that refreshes scraped_at of the stored post on a duplicate.
insert_post_refreshing(source, title, content, now) ==
    LET content_hash == get_content_hash(source, title, content)
        info == [stored |-> \E i \in 1..Len(posts) :
                               posts[i].content_hash = content_hash,
                 pre |-> posts, content_hash |-> content_hash,
                 args |-> [source |-> source, title |-> title,
                           content |-> content]]
    IN  /\ posts' = IF info.stored
                    THEN [i \in 1..Len(posts) |->
                            IF posts[i].content_hash = content_hash
                            THEN [posts[i] EXCEPT !.scraped_at = now]
                            ELSE posts[i]]
                    ELSE SqlInsertPost(content_hash, source, title, content, now).table
        /\ last' = Returned("insert_post",
                            IF info.stored THEN None ELSE PyInt(Len(posts) + 1), info)

\* insert_post: the check and the insert of one call, run by a single writer.
\* `now` is the reading of datetime.now() that becomes scraped_at.  The call
\* returns None for a duplicate and cursor.lastrowid otherwise.
insert_post(source, title, content, now) ==
    LET content_hash == get_content_hash(source, title, content)
        info == [stored |-> \E i \in 1..Len(posts) :
                               posts[i].content_hash = content_hash,
                 pre |-> posts, content_hash |-> content_hash,
                 args |-> [source |-> source, title |-> title,
                           content |-> content]]
    IN  IF post_exists(content_hash)
        THEN /\ posts' = posts
             /\ last' = Returned("insert_post", None, info)
        ELSE LET r == SqlInsertPost(content_hash, source, title, content, now)
             IN  /\ posts' = r.table
                 /\ last' = IF r.raised
                            THEN Raised("insert_post", r.exc, info)
                            ELSE Returned("insert_post", PyInt(r.lastrowid), info)

\* datetime.now() does not run backwards between two inserts of one writer.
\* The store only ever compares scraped_at values (ORDER BY), so readings are
\* taken up to order: a reading equals the newest stored one or follows it.
Times == 1..MaxTime
NowOk(now) ==
    /\ \A i \in 1..Len(posts) : posts[i].scraped_at <= now
    /\ now <= (IF posts = <<>> THEN 1 ELSE posts[Len(posts)].scraped_at + 1)

(***************************************************************************)
(* Texts.  A text is a Python str whose content the parser reads:          *)
(*   form "plain"    : words that hold no JSON and no fence; doc is the     *)
(*                     pieces whose concatenation is the text;              *)
(*   form "bare"     : exactly one JSON document, doc its value;            *)
(*   form "fenced"   : a ``` fenced block (json tag or not) around one      *)
(*                     JSON document;                                       *)
(*   form "embedded" : prose without braces around one JSON document.       *)
(***************************************************************************)
Text(form, doc) == [t |-> "text", text |-> [form |-> form, doc |-> doc]]
Words(pieces) == Text("plain", [t |-> "pieces", pieces |-> pieces])

(***************************************************************************)
(* Table classifications.  The row's id (AUTOINCREMENT) and classified_at  *)
(* are left out: nothing below reads them.                                 *)
(***************************************************************************)
ClsFields == {"category", "audience", "intensity", "automation_potential",
              "suggested_solution", "keywords", "summary"}

\* sqlite3 binds None, int (bool), float and str; any other type is refused.
Bindable(x) == x.t \in {"None", "bool", "int", "float", "str", "text"}

\* json.dumps(keywords) if keywords else None
StoredKeywords(k) == IF Truthy(k) THEN [t |-> "str_json", json |-> k] ELSE None

\* The tuple of parameters bound by insert_classification, as the row it makes.
RowOf(a) ==
    [post_id |-> a.post_id, is_pain_point |-> a.is_pain_point,
     category |-> a.category, audience |-> a.audience,
     intensity |-> a.intensity,
     automation_potential |-> a.automation_potential,
     suggested_solution |-> a.suggested_solution,
     keywords |-> StoredKeywords(a.keywords), summary |-> a.summary,
     raw_response |-> a.raw_response]

\* get_connection: sqlite3.connect and nothing else; the connection keeps
\* SQLite's default, under which FOREIGN KEY clauses are not enforced.
foreign_keys == FALSE

\* A plain INSERT that keeps the rows in conflict.
SqlInsertKeeping(rows, row) == rows \cup {row}

\* INSERT OR REPLACE: post_id is UNIQUE, so the rows in conflict are deleted
\* and the new row is inserted.
SqlInsertOrReplace(rows, row) ==
    {r \in rows : r.post_id # row.post_id} \cup {row}

\* insert_classification: [raised, exc, table]
insert_classification(a) ==
    LET row == RowOf(a)
        keep(exc) == [raised |-> TRUE, exc |-> exc, table |-> classifications]
    IN  IF \E f \in DOMAIN row \ {"post_id"} : ~Bindable(row[f])
        THEN keep("ProgrammingError")
        ELSE IF row.is_pain_point.t = "None"
        THEN keep("IntegrityError")
        ELSE IF foreign_keys /\ ~\E i \in 1..Len(posts) : posts[i].id = a.post_id
        THEN keep("IntegrityError")
        ELSE [raised |-> FALSE, exc |-> "",
              table |-> SqlInsertOrReplace(classifications, row)]

\* One call of insert_classification as a step of the store.
InsertClassificationStep(a) ==
    LET r == insert_classification(a)
        info == [post_id |-> a.post_id,
                 known |-> \E i \in 1..Len(posts) : posts[i].id = a.post_id,
                 pre |-> classifications,
                 replaced |-> \E x \in classifications :
                                 x.post_id = a.post_id /\ x # RowOf(a)]
    IN  /\ classifications' = r.table
        /\ last' = IF r.raised
                   THEN Raised("insert_classification", r.exc, info)
                   ELSE Returned("insert_classification", None, info)
        /\ latest' = IF r.raised THEN latest ELSE (a.post_id :> a) @@ latest

\* The sequences that list the elements of S once each.
Perms(S) ==
    {s \in [1..Cardinality(S) -> S] :
        \A i, j \in 1..Cardinality(S) : i # j => s[i] # s[j]}

\* The join without its WHERE clause: every post.
UnclassifiedWithoutWhere ==
    {posts[i] : i \in 1..Len(posts)}

\* SELECT p.* FROM posts p LEFT JOIN classifications c ON p.id = c.post_id
\* WHERE c.id IS NULL
Unclassified ==
    {posts[i] : i \in {j \in 1..Len(posts) :
                          ~\E c \in classifications : c.post_id = posts[j].id}}

\* ORDER BY p.scraped_at DESC: rows of equal scraped_at come in any order.
OrderedByScrapedAtDesc(S) ==
    {s \in Perms(S) :
        \A i, j \in 1..Len(s) : i < j => s[i].scraped_at >= s[j].scraped_at}

\* LIMIT ?: a negative limit is no limit.
SqlLimit(s, limit) ==
    IF limit < 0 THEN s ELSE SubSeq(s, 1, Min(limit, Len(s)))

\* get_unclassified_posts: the lists the query can return.
get_unclassified_posts(limit) ==
    {SqlLimit(s, limit) : s \in OrderedByScrapedAtDesc(Unclassified)}

Limits == (0 - 1) .. MaxLimit

(***************************************************************************)
(* The response parser.                                                    *)
(***************************************************************************)
\* json.loads(text): [ok, val]; ok is FALSE for json.JSONDecodeError.  JSON
\* null loads as None.
json_loads(text) ==
    IF text.text.form = "bare"
    THEN [ok |-> TRUE, val |-> text.text.doc]
    ELSE [ok |-> FALSE, val |-> None]

\* re.search(r"```(?:json)?\s*([\s\S]*?)\s*```", text): [found, group]
SearchFence(text) ==
    IF text.text.form = "fenced"
    THEN [found |-> TRUE, group |-> Text("bare", text.text.doc)]
    ELSE [found |-> FALSE, group |-> text]

\* re.search(r"\{[\s\S]*\}", text): [found, group].  Of the texts above only
\* a JSON object brings braces.
SearchBraces(text) ==
    IF text.text.form \in {"embedded", "fenced"} /\ text.text.doc.t = "dict"
    THEN [found |-> TRUE, group |-> Text("bare", text.text.doc)]
    ELSE [found |-> FALSE, group |-> text]

\* extract_json_from_response: the loaded value of the first strategy that
\* loads, or None.
extract_json_from_response(text) ==
    IF json_loads(text).ok THEN json_loads(text).val
    ELSE IF SearchFence(text).found /\ json_loads(SearchFence(text).group).ok
    THEN json_loads(SearchFence(text).group).val
    ELSE IF SearchBraces(text).found /\ json_loads(SearchBraces(text).group).ok
    THEN json_loads(SearchBraces(text).group).val
    ELSE None

(***************************************************************************)
(* The response parser on the characters of the reply.  A text is a        *)
(* sequence of characters; the fence marker and the tag word count as one  *)
(* character each (FENCE is the three backticks).                         *)
(***************************************************************************)
FENCE == "<fence>"
TAG   == "json"
QUOTE == "\""
DIGIT == "8"

\* \s*: the first position from i on that is not white space.
RECURSIVE SkipWs(_, _)
SkipWs(s, i) ==
    IF i <= Len(s) /\ s[i] = " " THEN SkipWs(s, i + 1) ELSE i

\* The end of the run of digits that starts at i.
RECURSIVE SkipDigits(_, _)
SkipDigits(s, i) ==
    IF i <= Len(s) /\ s[i] = DIGIT THEN SkipDigits(s, i + 1) ELSE i

\* The number that n digits 8 write.
RECURSIVE Eights(_)
Eights(n) == IF n = 0 THEN 0 ELSE 10 * Eights(n - 1) + 8

Scanned(val, end) == [ok |-> TRUE, val |-> val, end |-> end]
NoScan == [ok |-> FALSE, val |-> None, end |-> 0]

\* The JSON decoder's string scanner: from the opening quote at i to the
\* next quote.
ScanString(s, i) ==
    LET closing == {j \in (i + 1)..Len(s) : s[j] = QUOTE}
    IN  IF closing = {} THEN NoScan
        ELSE LET j == CHOOSE x \in closing : \A y \in closing : x <= y
             IN  Scanned(Chars(SubSeq(s, i + 1, j - 1)), j + 1)

\* The JSON decoder's scanner: the value that starts at i.  Of two members
\* with the same key the later one stays.
RECURSIVE ScanValue(_, _), ScanMembers(_, _, _), ScanElements(_, _, _)
ScanValue(s, i) ==
    IF i > Len(s) THEN NoScan
    ELSE CASE s[i] = QUOTE -> ScanString(s, i)
           [] s[i] = DIGIT ->
                  Scanned(PyInt(Eights(SkipDigits(s, i) - i)), SkipDigits(s, i))
           [] s[i] = "{" ->
                  LET j == SkipWs(s, i + 1)
                  IN  IF j <= Len(s) /\ s[j] = "}"
                      THEN Scanned(PyDict(<<>>), j + 1)
                      ELSE ScanMembers(s, j, <<>>)
           [] s[i] = "[" ->
                  LET j == SkipWs(s, i + 1)
                  IN  IF j <= Len(s) /\ s[j] = "]"
                      THEN Scanned(PyList(<<>>), j + 1)
                      ELSE ScanElements(s, j, <<>>)
           [] OTHER -> NoScan
ScanMembers(s, i, acc) ==
    IF i > Len(s) \/ s[i] # QUOTE THEN NoScan
    ELSE LET k == ScanString(s, i)
             c == SkipWs(s, k.end)
             v == ScanValue(s, SkipWs(s, c + 1))
             m == SkipWs(s, v.end)
             acc2 == (k.val.chars :> v.val) @@ acc
         IN  IF ~k.ok \/ c > Len(s) \/ s[c] # ":" THEN NoScan
             ELSE IF ~v.ok \/ m > Len(s) THEN NoScan
             ELSE IF s[m] = "," THEN ScanMembers(s, SkipWs(s, m + 1), acc2)
             ELSE IF s[m] = "}" THEN Scanned(PyDict(acc2), m + 1)
             ELSE NoScan
ScanElements(s, i, acc) ==
    LET v == ScanValue(s, i)
        m == SkipWs(s, v.end)
    IN  IF ~v.ok \/ m > Len(s) THEN NoScan
        ELSE IF s[m] = "," THEN ScanElements(s, SkipWs(s, m + 1), Append(acc, v.val))
        ELSE IF s[m] = "]" THEN Scanned(PyList(Append(acc, v.val)), m + 1)
        ELSE NoScan

\* json.loads(s): one value with white space around it and nothing else;
\* ok is FALSE for json.JSONDecodeError.
JsonLoads(s) ==
    LET v == ScanValue(s, SkipWs(s, 1))
    IN  IF v.ok /\ SkipWs(s, v.end) = Len(s) + 1
        THEN [ok |-> TRUE, val |-> v.val]
        ELSE [ok |-> FALSE, val |-> None]

Positions(s, c) == {i \in 1..Len(s) : s[i] = c}
First(S) == CHOOSE x \in S : \A y \in S : x <= y
Last(S) == CHOOSE x \in S : \A y \in S : x >= y

\* re.search(r"```(?:json)?\s*([\s\S]*?)\s*```", s): the leftmost match
\* starts at the first fence and ends at the second; the group is what lies
\* between them without the tag and the white space at both ends.
ReSearchFence(s) ==
    LET fences == Positions(s, FENCE)
    IN  IF Cardinality(fences) < 2 THEN [found |-> FALSE, group |-> <<>>]
        ELSE LET open == First(fences)
                 close == First(fences \ {open})
                 a == IF s[open + 1] = TAG THEN open + 2 ELSE open + 1
                 b == SkipWs(s, a)
                 e == First({x \in b..close : SkipWs(s, x) = close})
             IN  [found |-> TRUE, group |-> SubSeq(s, b, e - 1)]

\* re.search(r"\{[\s\S]*\}", s): from the first opening brace to the last
\* closing brace.
ReSearchBraces(s) ==
    LET opens == Positions(s, "{")
        closes == Positions(s, "}")
    IN  IF opens = {} \/ closes = {} \/ Last(closes) < First(opens)
        THEN [found |-> FALSE, group |-> <<>>]
        ELSE [found |-> TRUE, group |-> SubSeq(s, First(opens), Last(closes))]

\* extract_json_from_response on the characters: the value of the first
\* strategy that loads, or None.
ExtractJson(s) ==
    IF JsonLoads(s).ok THEN JsonLoads(s).val
    ELSE IF ReSearchFence(s).found /\ JsonLoads(ReSearchFence(s).group).ok
    THEN JsonLoads(ReSearchFence(s).group).val
    ELSE IF ReSearchBraces(s).found /\ JsonLoads(ReSearchBraces(s).group).ok
    THEN JsonLoads(ReSearchBraces(s).group).val
    ELSE None

(***************************************************************************)
(* The schema validator.                                                   *)
(***************************************************************************)
CATEGORIES ==
    {"healthcare", "transport", "compliance", "hiring", "cost_of_living",
     "housing", "finance", "education", "government_services", "rental",
     "food_delivery", "banking", "insurance", "telecommunications", "other"}
AUDIENCES == {"consumer", "SME", "both"}
AUTOMATION == {"low", "medium", "high"}

\* str.lower() of the strings the inputs below use
Lower(s) ==
    CASE s = "SME"       -> "sme"
      [] s = "Housing"   -> "housing"
      [] s = "TRANSPORT" -> "transport"
      [] s = "High"      -> "high"
      [] s = "Both"      -> "both"
      [] OTHER           -> s
LowerAll(S) == {Lower(x) : x \in S}

\* An outcome of a computation that can raise.
Ok(val) == [raised |-> FALSE, exc |-> "", msg |-> <<>>, val |-> val]
Raise(exc, msg) == [raised |-> TRUE, exc |-> exc, msg |-> msg, val |-> None]
NoAttribute(x, attr) ==
    Raise("AttributeError",
          <<"'", TypeName(x), "' object has no attribute '", attr, "'">>)

\* int(s) of a str: the decimal strings the inputs below use
IsDecimal(s) == s \in {"7", "0", "42"}
DecimalValue(s) == CASE s = "7" -> 7 [] s = "0" -> 0 [] s = "42" -> 42

\* int(x): [raised, exc, msg, val]
PyIntOf(x) ==
    CASE x.t = "int"   -> Ok(x.n)
      [] x.t = "bool"  -> Ok(IF x.b THEN 1 ELSE 0)
      [] x.t = "float" ->
            Raise("OverflowError", <<"cannot convert float infinity to integer">>)
      [] x.t = "str"   ->
            IF IsDecimal(x.s) THEN Ok(DecimalValue(x.s))
            ELSE Raise("ValueError",
                       <<"invalid literal for int() with base 10: '", x.s, "'">>)
      [] OTHER ->
            Raise("TypeError",
                  <<"int() argument must be a string, a bytes-like object or ",
                    "a real number, not '", TypeName(x), "'">>)

\* str(k) of a keyword
IntText(n) == CASE n = 5 -> "5" [] n = 8 -> "8" [] OTHER -> "int"
PyStrOf(k) ==
    CASE k.t = "str" -> k
      [] k.t = "int" -> PyStr(IntText(k.n))
      [] OTHER       -> PyStr(k.t)

\* [k.strip() for k in s.split(",")] of the strings the inputs below use
SplitComma(s) ==
    CASE s = "mrt, delay" -> <<PyStr("mrt"), PyStr("delay")>>
      [] OTHER            -> <<PyStr(s)>>

MaxKeywords == 10
Take(s, n) == SubSeq(s, 1, Min(n, Len(s)))

\* `if x and x.lower() in allowed: x.lower() else: default`
MatchEnum(x, allowed, default) ==
    IF ~Truthy(x) THEN Ok(PyStr(default))
    ELSE IF x.t # "str" THEN NoAttribute(x, "lower")
    ELSE IF Lower(x.s) \in LowerAll(allowed) THEN Ok(PyStr(Lower(x.s)))
    ELSE Ok(PyStr(default))

\* lines 88-94 (classifier.py): only ValueError and TypeError are caught
Intensity(x) ==
    IF x = None THEN Ok(None)
    ELSE LET n == PyIntOf(x)
         IN  IF ~n.raised THEN Ok(PyInt(Max(1, Min(10, n.val))))
             ELSE IF n.exc \in {"ValueError", "TypeError"} THEN Ok(PyInt(5))
             ELSE n

Keywords(x) ==
    CASE x.t = "list" -> PyList(Take([i \in 1..Len(x.items) |-> PyStrOf(x.items[i])],
                                     MaxKeywords))
      [] x.t = "str"  -> PyList(Take(SplitComma(x.s), MaxKeywords))
      [] OTHER        -> None

\* validate_classification without the early return for a false flag.
validate_classification_no_short_circuit(data) ==
    IF data.t # "dict" THEN NoAttribute(data, "get")
    ELSE Ok(PyDict(
            [is_pain_point |->
                PyBool(Truthy(DictGetDefault(data, "is_pain_point", PyBool(FALSE)))),
             category |-> PyStr("other"), audience |-> PyStr("consumer"),
             intensity |-> None, automation_potential |-> PyStr("medium"),
             suggested_solution |-> None, keywords |-> None, summary |-> None]))

\* validate_classification (the same function in classifier.py and in
\* classifier_cloud.py): [raised, exc, msg, val]
validate_classification(data) ==
    IF data.t # "dict" THEN NoAttribute(data, "get")
    ELSE
    LET flag == Truthy(DictGetDefault(data, "is_pain_point", PyBool(FALSE)))
        validated ==
            [is_pain_point |-> PyBool(flag), category |-> None,
             audience |-> None, intensity |-> None,
             automation_potential |-> None, suggested_solution |-> None,
             keywords |-> None, summary |-> None]
        category == MatchEnum(PyOr(DictGet(data, "pain_point_category"),
                                   DictGet(data, "category")),
                              CATEGORIES, "other")
        audience == MatchEnum(PyOr(DictGet(data, "target_audience"),
                                   DictGet(data, "audience")),
                              AUDIENCES, "consumer")
        intensity == Intensity(DictGet(data, "intensity"))
        automation == MatchEnum(DictGet(data, "automation_potential"),
                                AUTOMATION, "medium")
    IN  IF ~flag THEN Ok(PyDict(validated))
        ELSE IF category.raised THEN category
        ELSE IF audience.raised THEN audience
        ELSE IF intensity.raised THEN intensity
        ELSE IF automation.raised THEN automation
        ELSE Ok(PyDict(
                [validated EXCEPT
                    !.category = category.val,
                    !.audience = audience.val,
                    !.intensity = intensity.val,
                    !.automation_potential = automation.val,
                    !.suggested_solution = DictGet(data, "suggested_solution"),
                    !.summary = DictGet(data, "summary"),
                    !.keywords = Keywords(DictGet(data, "keywords"))]))

(***************************************************************************)
(* The store under a single writer.                                        *)
(***************************************************************************)
NoCall == [call |-> "none", raised |-> FALSE, exc |-> "", ret |-> None,
           info |-> [none |-> TRUE]]

InitStore ==
    /\ posts = <<>>
    /\ classifications = {}
    /\ last = NoCall
    /\ latest = <<>>

InitRun ==
    /\ pc = "idle"
    /\ batch = <<>>
    /\ idx = 0
    /\ results = <<>>
    /\ calls = <<>>
    /\ pidx = 0
    /\ classified = 0
    /\ pain_points = 0
    /\ ret = [kind |-> "none"]
    /\ run_limit = 0
    /\ log = <<>>

NoValue == [kind |-> "none"]

InitVal ==
    /\ vin = None
    /\ vout = NoValue

NoReply == [object |-> <<>>, text |-> <<>>]

InitParse ==
    /\ reply = NoReply
    /\ parsed = NoValue

\* Nothing else is going on: no scraper is inside insert_post, no second
\* run, no Twitter scraper, no page being fetched.
InitOther ==
    /\ writers = <<>>
    /\ runs = <<>>
    /\ tw = [pc |-> "none"]
    /\ gp = [pc |-> "none"]

Init == InitStore /\ InitRun /\ InitVal /\ InitParse /\ InitOther

\* What the scrapers hand to insert_post.  Two pairs differ only where
\* get_content_hash does not look: beyond the 500th character of the content,
\* and in where the ":" falls between source, title and content.
Long(c) == Chars(Rep("a", HashPrefixLen) \o <<c>>)
PostInputs ==
    { [source |-> Chars(<<"r">>), title |-> Chars(<<"t">>), content |-> Chars(<<"b">>)],
      [source |-> Chars(<<"r">>), title |-> None, content |-> Chars(<<"b">>)],
      [source |-> Chars(<<"r">>), title |-> Chars(<<"t">>), content |-> Chars(<<"c">>)],
      [source |-> Chars(<<"r", ":">>), title |-> Chars(<<"t">>), content |-> Chars(<<"b">>)],
      [source |-> Chars(<<"r">>), title |-> Chars(<<":", "t">>), content |-> Chars(<<"b">>)],
      [source |-> Chars(<<"r">>), title |-> Chars(<<"t", ":">>), content |-> Chars(<<"b">>)],
      [source |-> Chars(<<"r">>), title |-> Chars(<<"t">>), content |-> Chars(<<":", "b">>)],
      [source |-> Chars(<<"r">>), title |-> Chars(<<"t">>), content |-> Long("x")],
      [source |-> Chars(<<"r">>), title |-> Chars(<<"t">>), content |-> Long("y")] }

InsertPost ==
    /\ Len(posts) < MaxPosts
    /\ \E p \in PostInputs, now \in Times :
          /\ NowOk(now)
          /\ insert_post(p.source, p.title, p.content, now)
    /\ UNCHANGED <<classifications, latest, runVars, valVars, parseVars, otherVars>>

NextPosts == InsertPost

SpecPosts == Init /\ [][NextPosts]_vars

\* C1: after any sequence of insert_post calls by a single writer no two stored
\* posts share a fingerprint; no call raises; a call whose fingerprint is
\* already stored returns None and leaves the table as it was, and a call whose
\* fingerprint is new stores exactly one post.
C1_UniqueFingerprint ==
    /\ \A i, j \in 1..Len(posts) :
          i # j => posts[i].content_hash # posts[j].content_hash
    /\ last.call = "insert_post" =>
          /\ ~last.raised
          /\ last.info.stored => (last.ret = None /\ posts = last.info.pre)
          /\ ~last.info.stored =>
                /\ last.ret = PyInt(Len(posts))
                /\ Len(posts) = Len(last.info.pre) + 1
                /\ SubSeq(posts, 1, Len(last.info.pre)) = last.info.pre
                /\ posts[Len(posts)].content_hash = last.info.content_hash

\* C1 witness: a second insert of a stored triple has reported the duplicate.
C1_Witness ==
    /\ last.call = "insert_post"
    /\ last.info.stored
    /\ last.ret = None
    /\ Len(posts) = 1

\* C19: insert_post reports a duplicate if and only if a stored post has the
\* same source, the same title and the same first 500 characters of content
\* (the digest being collision-free on the string it digests).
C19_DuplicateIffSameKey ==
    (last.call = "insert_post" /\ ~last.raised) =>
        LET a == last.info.args
            pre == last.info.pre
        IN  (last.ret = None) <=>
                \E i \in 1..Len(pre) :
                    /\ pre[i].source = a.source
                    /\ pre[i].title = a.title
                    /\ Prefix(pre[i].content.chars, HashPrefixLen)
                          = Prefix(a.content.chars, HashPrefixLen)

(***************************************************************************)
(* The two tables under direct calls of the store's API.                   *)
(***************************************************************************)
PostIds == 1..MaxPosts

\* Arguments of insert_classification, of the types its signature declares.
Negative(p) ==
    [post_id |-> p, is_pain_point |-> PyBool(FALSE), category |-> None,
     audience |-> None, intensity |-> None, automation_potential |-> None,
     suggested_solution |-> None, keywords |-> None, summary |-> None,
     raw_response |-> Words(<<"not a pain point">>)]
Positive(p, category, keywords) ==
    [post_id |-> p, is_pain_point |-> PyBool(TRUE), category |-> PyStr(category),
     audience |-> PyStr("consumer"), intensity |-> PyInt(8),
     automation_potential |-> PyStr("high"),
     suggested_solution |-> PyStr("an alert bot"), keywords |-> keywords,
     summary |-> PyStr("trains are late"), raw_response |-> Words(<<"a reply">>)]
ClsInputs ==
    UNION { { Negative(p),
              Positive(p, "transport", PyList(<<PyStr("mrt"), PyStr("delay")>>)),
              Positive(p, "housing", PyList(<<>>)) } : p \in PostIds }

\* A scraper hands over the n-th post, whose content is n characters long:
\* the next new post, or one scraped before.
InsertNextPost ==
    /\ \E n \in 1..MaxPosts, now \in Times :
          /\ n <= Len(posts) + 1
          /\ NowOk(now)
          /\ insert_post(Chars(<<"r">>), Chars(<<"t">>), Chars(Rep("b", n)), now)
    /\ UNCHANGED <<classifications, latest, runVars, valVars, parseVars, otherVars>>

InsertClassification ==
    /\ \E a \in ClsInputs : InsertClassificationStep(a)
    /\ UNCHANGED <<posts, runVars, valVars, parseVars, otherVars>>

GetUnclassifiedPosts ==
    /\ \E limit \in Limits : \E r \in get_unclassified_posts(limit) :
          last' = Returned("get_unclassified_posts", PyList(r), [limit |-> limit])
    /\ UNCHANGED <<posts, classifications, latest, runVars, valVars, parseVars, otherVars>>

NextCls == InsertNextPost \/ InsertClassification \/ GetUnclassifiedPosts

SpecCls == Init /\ [][NextCls]_vars

RowsOf(p) == {c \in classifications : c.post_id = p}

C9_ForeignKeyEnforced ==
    last.call = "insert_classification" =>
        IF last.info.known
        THEN ~last.raised
        ELSE /\ last.raised
             /\ last.exc = "IntegrityError"
             /\ classifications = last.info.pre

NewerOrSame(p, q) == q.scraped_at >= p.scraped_at

\* C10: for every store state and every integer limit, get_unclassified_posts
\* returns only posts without a classification row, newest first, never more
\* than limit posts (none for a limit below zero), and omits an unclassified
\* post only when limit posts at least as new are returned.
C10_BoundedNewestFirst ==
    last.call = "get_unclassified_posts" =>
        LET r == last.ret.items
            limit == last.info.limit
        IN  /\ \A i \in 1..Len(r) : r[i] \in Unclassified
            /\ \A i, j \in 1..Len(r) :
                  i < j => r[i].scraped_at >= r[j].scraped_at
            /\ Len(r) <= Max(limit, 0)
            /\ \A p \in Unclassified :
                  (\A i \in 1..Len(r) : r[i] # p) =>
                      /\ Len(r) >= limit
                      /\ \A i \in 1..Len(r) : NewerOrSame(p, r[i])

(***************************************************************************)
(* classify_post and the batch orchestrator.                               *)
(***************************************************************************)
\* What the backend call does for one post: it raises (ollama.generate or
\* requests.post raising, raise_for_status on a non-2xx response), or it
\* returns the reply text.
BackendError(pieces) == [kind |-> "error", msg |-> pieces]
BackendReply(text) == [kind |-> "reply", text |-> text]

Failed(raw_response) ==
    PyDict([is_pain_point |-> PyBool(FALSE), raw_response |-> raw_response])

\* classify_post without `validated["raw_response"] = response_text`.
classify_post_dropping_reply_text(title, content, source, outcome) ==
    IF title.t = "None" \/ content.t = "None"
    THEN Raise("TypeError", <<"'NoneType' object is not subscriptable">>)
    ELSE IF outcome.kind = "error"
    THEN Ok(Failed(Words(outcome.msg)))
    ELSE
    LET response_text == outcome.text
        data == extract_json_from_response(response_text)
        validated == validate_classification(data)
    IN  IF data = None THEN Ok(Failed(response_text))
        ELSE IF validated.raised THEN Ok(Failed(Words(validated.msg)))
        ELSE Ok(PyDict([k \in DOMAIN validated.val.d \cup {"raw_response"} |->
                          IF k = "raw_response" THEN None
                          ELSE validated.val.d[k]]))

\* classify_post (the same in PainPointClassifier and CloudClassifier).  The
\* prompt is rendered before the try block, and title[:500] needs a str.
\* [raised, exc, msg, val]
classify_post(title, content, source, outcome) ==
    IF title.t = "None" \/ content.t = "None"
    THEN Raise("TypeError", <<"'NoneType' object is not subscriptable">>)
    ELSE IF outcome.kind = "error"
    THEN Ok(Failed(Words(outcome.msg)))
    ELSE
    LET response_text == outcome.text
        data == extract_json_from_response(response_text)
        validated == validate_classification(data)
    IN  IF data = None THEN Ok(Failed(response_text))
        ELSE IF validated.raised THEN Ok(Failed(Words(validated.msg)))
        ELSE Ok(PyDict([k \in DOMAIN validated.val.d \cup {"raw_response"} |->
                          IF k = "raw_response" THEN response_text
                          ELSE validated.val.d[k]]))

\* CloudClassifier.classify_post without the try block around the request.
CloudClassifier_classify_post_unguarded(title, content, source, outcome) ==
    IF title.t = "None" \/ content.t = "None"
    THEN Raise("TypeError", <<"'NoneType' object is not subscriptable">>)
    ELSE IF outcome.kind = "error"
    THEN Raise("RequestException", outcome.msg)
    ELSE
    LET response_text == outcome.text
        data == extract_json_from_response(response_text)
        validated == validate_classification(data)
    IN  IF data = None THEN Ok(Failed(response_text))
        ELSE IF validated.raised THEN Ok(Failed(Words(validated.msg)))
        ELSE Ok(PyDict([k \in DOMAIN validated.val.d \cup {"raw_response"} |->
                          IF k = "raw_response" THEN response_text
                          ELSE validated.val.d[k]]))

\* CloudClassifier.classify_post: the prompt is rendered before the try block;
\* requests.post, raise_for_status, the parser and the validator run inside
\* it, and the reply text is the content of the first choice's message.
CloudClassifier_classify_post(title, content, source, outcome) ==
    IF title.t = "None" \/ content.t = "None"
    THEN Raise("TypeError", <<"'NoneType' object is not subscriptable">>)
    ELSE IF outcome.kind = "error"
    THEN Ok(Failed(Words(outcome.msg)))
    ELSE
    LET response_text == outcome.text
        data == extract_json_from_response(response_text)
        validated == validate_classification(data)
    IN  IF data = None THEN Ok(Failed(response_text))
        ELSE IF validated.raised THEN Ok(Failed(Words(validated.msg)))
        ELSE Ok(PyDict([k \in DOMAIN validated.val.d \cup {"raw_response"} |->
                          IF k = "raw_response" THEN response_text
                          ELSE validated.val.d[k]]))

\* classify_batch calls the classify_post of its own class: main.py runs the
\* Ollama classifier, main_cloud.py the Groq one.
Backends == {"ollama", "groq"}
ClassifyWith(backend, post, outcome) ==
    IF backend = "ollama"
    THEN classify_post(post.title, post.content, post.source, outcome)
    ELSE CloudClassifier_classify_post(post.title, post.content, post.source,
                                       outcome)

\* An entry of the run's history: the fetch (limit, posts fetched), a
\* progress callback (index, total), a backend call (post id, index) or a
\* saved row (post id, index).
Event(ev, a, b) == [ev |-> ev, a |-> a, b |-> b]

\* PainPointClassifier.__init__: _check_ollama re-raises when ollama.list()
\* fails.  CloudClassifier.__init__: raises when GROQ_API_KEY is empty.
PainPointClassifier_init(ollama_up) ==
    IF ollama_up THEN Ok(None) ELSE Raise("ConnectionError", <<"ollama">>)
CloudClassifier_init(api_key_set) ==
    IF api_key_set THEN Ok(None)
    ELSE Raise("ValueError", <<"GROQ_API_KEY environment variable not set">>)
Constructors ==
    {PainPointClassifier_init(TRUE), PainPointClassifier_init(FALSE),
     CloudClassifier_init(TRUE), CloudClassifier_init(FALSE)}

\* The arguments classify_unclassified passes to insert_classification.
PersistArgs(post_id, c) ==
    [post_id |-> post_id, is_pain_point |-> c.d["is_pain_point"],
     category |-> DictGet(c, "category"), audience |-> DictGet(c, "audience"),
     intensity |-> DictGet(c, "intensity"),
     automation_potential |-> DictGet(c, "automation_potential"),
     suggested_solution |-> DictGet(c, "suggested_solution"),
     keywords |-> DictGet(c, "keywords"), summary |-> DictGet(c, "summary"),
     raw_response |-> DictGet(c, "raw_response")]

\* JSON documents the model sends back.
Obj(f) == PyDict(f)
DocNotPain ==
    Obj([is_pain_point |-> PyBool(FALSE), category |-> PyStr("Housing"),
         intensity |-> PyInt(9)])
DocPain ==
    Obj([is_pain_point |-> PyBool(TRUE), category |-> PyStr("transport"),
         audience |-> PyStr("consumer"), intensity |-> PyInt(8)])
DocNumericCategory ==
    Obj([is_pain_point |-> PyBool(TRUE), category |-> PyInt(5)])
DocListSummary ==
    Obj([is_pain_point |-> PyBool(TRUE), summary |-> PyList(<<PyStr("late")>>)])
DocArray == PyList(<<PyInt(1), PyInt(2)>>)

BackendOutcomes ==
    { BackendError(<<"timed out">>),
      BackendReply(Words(<<"Sorry, I cannot help with that.">>)),
      BackendReply(Text("bare", DocArray)),
      BackendReply(Text("bare", DocNotPain)),
      BackendReply(Text("bare", DocPain)),
      BackendReply(Text("fenced", DocPain)),
      BackendReply(Text("bare", DocNumericCategory)),
      BackendReply(Text("bare", DocListSummary)) }

Return(c, p) == [kind |-> "return", classified |-> c, pain_points |-> p]
Throw(exc, at) == [kind |-> "raise", exc |-> exc, at |-> at]

\* An iteration that reports progress once the post is classified.
IterationEvents_callback_last(post_id, i, total, raised) ==
    IF raised THEN <<>>
    ELSE <<Event("call", post_id, i), Event("progress", i, total)>>

\* What one iteration of the loop of classify_batch does, in order:
\* progress_callback(i + 1, total), then classify_post, whose backend call is
\* not reached when rendering the prompt raises.
IterationEvents(post_id, i, total, raised) ==
    IF raised THEN <<Event("progress", i, total)>>
    ELSE <<Event("progress", i, total), Event("call", post_id, i)>>

\* A scraper stores the n-th post; the title may be missing (posts.title is
\* nullable).
ScrapePost ==
    /\ pc = "idle"
    /\ Len(posts) < MaxRunPosts
    /\ \E now \in Times, title \in {Chars(<<"t">>), None} :
          /\ NowOk(now)
          /\ insert_post(Chars(<<"r">>), title,
                         Chars(Rep("b", Len(posts) + 1)), now)
    /\ UNCHANGED <<classifications, latest, runVars, valVars, parseVars, otherVars>>

\* classify_unclassified(limit) up to the construction of the classifier:
\* the fetch, and the early return when nothing was fetched.
Fetch ==
    /\ pc = "idle"
    /\ \E l \in Limits : \E r \in get_unclassified_posts(l) :
          /\ run_limit' = l
          /\ batch' = r
          /\ log' = <<Event("fetch", l, Len(r))>>
          /\ IF r = <<>>
             THEN pc' = "done" /\ ret' = Return(0, 0)
             ELSE pc' = "construct" /\ ret' = ret
    /\ UNCHANGED <<storeVars, idx, results, calls, pidx, classified,
                   pain_points, valVars, parseVars, otherVars>>

\* classifier = PainPointClassifier() or CloudClassifier()
Construct ==
    /\ pc = "construct"
    /\ \E c \in Constructors :
          IF c.raised
          THEN pc' = "raised" /\ ret' = Throw(c.exc, "constructor")
          ELSE pc' = "batch" /\ ret' = ret
    /\ UNCHANGED <<storeVars, batch, idx, results, calls, pidx, classified,
                   pain_points, run_limit, log, valVars, parseVars, otherVars>>

\* One iteration of the loop of classify_batch (the same in both
\* classifiers): the progress callback, then classify_post, whose backend call
\* is made once the prompt is rendered.  Which of the two programs is running
\* is not part of the state: each iteration is taken with either class, which
\* includes every run of main.py and every run of main_cloud.py.
ClassifyNext ==
    /\ pc = "batch"
    /\ idx < Len(batch)
    /\ \E outcome \in BackendOutcomes, backend \in Backends :
          LET post == batch[idx + 1]
              c == ClassifyWith(backend, post, outcome)
              events == IterationEvents(post.id, idx + 1, Len(batch), c.raised)
          IN  IF c.raised
              THEN /\ pc' = "raised"
                   /\ ret' = Throw(c.exc, "classify_post")
                   /\ log' = log \o events
                   /\ UNCHANGED <<idx, results, calls>>
              ELSE /\ results' = Append(results, <<post.id, c.val>>)
                   /\ calls' = Append(calls, [post_id |-> post.id,
                                              outcome |-> outcome])
                   /\ idx' = idx + 1
                   /\ log' = log \o events
                   /\ UNCHANGED <<pc, ret>>
    /\ UNCHANGED <<storeVars, batch, pidx, classified, pain_points, run_limit,
                   valVars, parseVars, otherVars>>

\* classify_batch handing back its results after the first post, so that
\* saving starts while later posts are still to be classified.
BatchReturn_before_end ==
    /\ pc = "batch"
    /\ idx >= 1
    /\ pc' = "persist"
    /\ UNCHANGED <<storeVars, batch, idx, results, calls, pidx, classified,
                   pain_points, ret, run_limit, log, valVars, parseVars, otherVars>>

\* classify_batch returns its results.
BatchReturn ==
    /\ pc = "batch"
    /\ idx = Len(batch)
    /\ pc' = "persist"
    /\ UNCHANGED <<storeVars, batch, idx, results, calls, pidx, classified,
                   pain_points, ret, run_limit, log, valVars, parseVars, otherVars>>

\* One iteration of the loop that saves the results.
PersistNext ==
    /\ pc = "persist"
    /\ pidx < Len(results)
    /\ LET post_id == results[pidx + 1][1]
           c == results[pidx + 1][2]
       IN  /\ InsertClassificationStep(PersistArgs(post_id, c))
           /\ IF last'.raised
              THEN /\ pc' = "raised"
                   /\ ret' = Throw(last'.exc, "insert_classification")
                   /\ UNCHANGED <<pidx, classified, pain_points, log>>
              ELSE /\ pidx' = pidx + 1
                   /\ classified' = classified + 1
                   /\ pain_points' = IF c.d["is_pain_point"].b
                                     THEN pain_points + 1 ELSE pain_points
                   /\ log' = Append(log, Event("persist", post_id, pidx + 1))
                   /\ UNCHANGED <<pc, ret>>
    /\ UNCHANGED <<posts, batch, idx, results, calls, run_limit, valVars, parseVars,
                   otherVars>>

\* classify_unclassified returns its counts.
RunReturn ==
    /\ pc = "persist"
    /\ pidx = Len(results)
    /\ pc' = "done"
    /\ ret' = Return(classified, pain_points)
    /\ UNCHANGED <<storeVars, batch, idx, results, calls, pidx, classified,
                   pain_points, run_limit, log, valVars, parseVars, otherVars>>

\* The process has ended; the next run starts afresh.
Exit ==
    /\ pc \in {"done", "raised", "killed"}
    /\ pc' = "idle"
    /\ batch' = <<>>
    /\ idx' = 0
    /\ results' = <<>>
    /\ calls' = <<>>
    /\ pidx' = 0
    /\ classified' = 0
    /\ pain_points' = 0
    /\ ret' = [kind |-> "none"]
    /\ run_limit' = 0
    /\ log' = <<>>
    /\ UNCHANGED <<storeVars, valVars, parseVars, otherVars>>

NextRun ==
    \/ ScrapePost
    \/ Fetch
    \/ Construct
    \/ ClassifyNext
    \/ BatchReturn
    \/ PersistNext
    \/ RunReturn
    \/ Exit

SpecRun == Init /\ [][NextRun]_vars

Ended == pc \in {"done", "raised"}

HasRow(post_id) == \E c \in classifications : c.post_id = post_id

\* C3: for every post fetched by a run that has obtained its classifier,
\* posts with a NULL title included, classify_post returns a record without
\* raising, and when the run ends the post has a classification row.
C3_AlwaysProduceRow ==
    /\ pc = "raised" => ret.at # "classify_post"
    /\ (Ended /\ ~(ret.kind = "raise" /\ ret.at = "constructor")) =>
          \A i \in 1..Len(batch) : HasRow(batch[i].id)

\* The row of a post whose classification failed with the given raw text.
FailedRow(post_id, raw_response) ==
    RowOf(PersistArgs(post_id, Failed(raw_response)))

\* C4: when the backend call for a post has raised, the fault does not
\* propagate; at the end of the run the row of that post has flag false and
\* the stringified error as raw_response, and every later post of the batch
\* has its row.
C4_BackendFaultIsolated ==
    Ended =>
        \A i \in 1..Len(calls) :
            calls[i].outcome.kind = "error" =>
                /\ {c \in classifications : c.post_id = calls[i].post_id}
                      = {FailedRow(calls[i].post_id, Words(calls[i].outcome.msg))}
                /\ \A j \in (i + 1)..Len(batch) : HasRow(batch[j].id)

\* C5: every run of classify_unclassified / classify_unclassified_cloud
\* ends in DONE and returns its counts, also when the backend is unreachable.
C5_RunAlwaysCompletes ==
    Ended => (pc = "done" /\ ret.kind = "return")

\* C6: every classification row whose pain-point flag is false has category,
\* audience, intensity, automation_potential, suggested_solution, keywords
\* and summary all null.
C6_NegativeRowsAreNull ==
    \A c \in classifications :
        c.is_pain_point = PyBool(FALSE) =>
            \A f \in ClsFields : c[f] = None

\* C6 witness: the store holds a false row made from a reply that said
\* is_pain_point false but carried a category, and a false row made from a
\* backend error.
C6_Witness ==
    /\ \E c \in classifications :
          /\ c.is_pain_point = PyBool(FALSE)
          /\ c.raw_response = Text("bare", DocNotPain)
    /\ \E c \in classifications :
          /\ c.is_pain_point = PyBool(FALSE)
          /\ c.raw_response = Words(<<"timed out">>)

\* C8: whenever the backend returned reply text for a post, the row persisted
\* for that post by the completed run carries exactly that text as
\* raw_response.
C8_ReplyTextRetained ==
    pc = "done" =>
        \A i \in 1..Len(calls) :
            calls[i].outcome.kind = "reply" =>
                \A c \in classifications :
                    c.post_id = calls[i].post_id =>
                        c.raw_response = calls[i].outcome.text

\* The ids of the posts of a fetched list.
IdsOf(r) == {r[j].id : j \in 1..Len(r)}

\* C11: a post whose persisted row has flag false and a backend error string
\* as raw_response is selected again by the next invocation of
\* classify_unclassified (one whose limit admits every stored post).
C11_FailedPostsReselected ==
    pc = "idle" =>
        \A i \in 1..Len(posts) :
            FailedRow(posts[i].id, Words(<<"timed out">>)) \in classifications
                => \A r \in get_unclassified_posts(Len(posts)) :
                       posts[i].id \in IdsOf(r)

\* The replies that carry the valid pain-point object, bare and fenced.
PainReplies ==
    {BackendReply(Text("bare", DocPain)), BackendReply(Text("fenced", DocPain))}

Kill ==
    /\ pc \in {"construct", "batch", "persist"}
    /\ pc' = "killed"
    /\ UNCHANGED <<storeVars, batch, idx, results, calls, pidx, classified,
                   pain_points, ret, run_limit, log, valVars, parseVars, otherVars>>

NextKill ==
    \/ NextRun
    \/ Kill

SpecKill == Init /\ [][NextKill]_vars

\* C12: terminating the run leaves the posts and every persisted row as they
\* were, the posts without a row are exactly what get_unclassified_posts
\* then returns, and no step of a run (resumed runs included) changes a row
\* that was already persisted.
C12_TerminationSafe ==
    [][/\ classifications \subseteq classifications'
       /\ pc' = "killed" =>
             /\ classifications' = classifications
             /\ posts' = posts
             /\ \A r \in get_unclassified_posts(Len(posts)) :
                    IdsOf(r) = {posts[i].id : i \in {j \in 1..Len(posts) :
                                                  ~HasRow(posts[j].id)}}]_vars

\* C12 witness: the run was terminated in the middle of its persist loop, one
\* row saved and one post of the batch still without a row.
C12_Witness ==
    /\ pc = "killed"
    /\ Len(batch) = 2
    /\ pidx = 1
    /\ HasRow(batch[1].id)
    /\ ~HasRow(batch[2].id)

(***************************************************************************)
(* The validator on its own.                                               *)
(***************************************************************************)
Absent == [t |-> "absent"]

\* The dict that holds the keys of f whose value is not Absent.
DictOf(f) == PyDict([k \in {x \in DOMAIN f : f[x] # Absent} |-> f[k]])

ValidatorDicts ==
    { DictOf([is_pain_point |-> ip, category |-> c, pain_point_category |-> pc2,
              audience |-> a, intensity |-> n, keywords |-> kw]) :
        ip \in {Absent, PyBool(TRUE), PyBool(FALSE), PyStr("false"), None,
                PyInt(0)},
        c \in {Absent, PyStr("Housing"), PyStr("bogus"), PyInt(5)},
        pc2 \in {Absent, PyStr("TRANSPORT")},
        a \in {Absent, PyStr("SME"), PyList(<<PyStr("both")>>)},
        n \in {Absent, PyInt(99), PyInt(0), PyInt(0 - 3), PyStr("abc"),
               PyStr("7"), PyInf},
        kw \in {Absent, PyStr("mrt, delay")} }

ValidatorInputs ==
    ValidatorDicts \cup {None, PyList(<<PyInt(1), PyInt(2)>>), PyInt(3)}

InitValidate ==
    /\ InitStore
    /\ InitRun
    /\ vin \in ValidatorInputs
    /\ vout = NoValue
    /\ InitParse
    /\ InitOther

Validate ==
    /\ vout = NoValue
    /\ vout' = [kind |-> "outcome"] @@ validate_classification(vin)
    /\ UNCHANGED <<vin, storeVars, runVars, parseVars, otherVars>>

NextValidate == Validate

SpecValidate == InitValidate /\ [][NextValidate]_vars

ClassificationKeys ==
    {"is_pain_point", "category", "audience", "intensity",
     "automation_potential", "suggested_solution", "keywords", "summary"}

\* C7: validate_classification is total: for every input (the empty object,
\* None, objects with wrong-typed fields) it returns a record with all eight
\* classification keys and never raises.
C7_ValidatorTotal ==
    vout # NoValue =>
        /\ ~vout.raised
        /\ vout.val.t = "dict"
        /\ DOMAIN vout.val.d = ClassificationKeys

\* The input is an object whose is_pain_point is truthy.
FlagTrue ==
    /\ vin.t = "dict"
    /\ Truthy(DictGetDefault(vin, "is_pain_point", PyBool(FALSE)))

\* The value the input supplies under the first of two keys, or, when that
\* is missing or empty, under the second.
Supplied(first, second) == PyOr(DictGet(vin, first), DictGet(vin, second))

\* C15: for every input with a true pain-point flag the validator returns a
\* record whose category is a member of the category enumeration: the
\* lowercase form of the supplied value when that matches a member
\* case-insensitively, and "other" when it is absent or matches nothing.
C15_CategoryInEnumeration ==
    (vout # NoValue /\ FlagTrue) =>
        /\ ~vout.raised
        /\ vout.val.d.category.t = "str"
        /\ vout.val.d.category.s \in CATEGORIES
        /\ LET supplied == Supplied("pain_point_category", "category")
           IN  vout.val.d.category.s =
                  IF supplied.t = "str" /\ Lower(supplied.s) \in CATEGORIES
                  THEN Lower(supplied.s) ELSE "other"

\* C16: for every input with a true pain-point flag the validator returns a
\* record whose audience is a member of the enumeration {consumer, SME,
\* both}: the member that the supplied value matches case-insensitively, and
\* "consumer" otherwise.
C16_AudienceInEnumeration ==
    (vout # NoValue /\ FlagTrue) =>
        /\ ~vout.raised
        /\ vout.val.d.audience.t = "str"
        /\ vout.val.d.audience.s \in AUDIENCES
        /\ LET supplied == Supplied("target_audience", "audience")
               matched == IF supplied.t = "str"
                          THEN {a \in AUDIENCES : Lower(a) = Lower(supplied.s)}
                          ELSE {}
           IN  IF matched = {} THEN vout.val.d.audience.s = "consumer"
               ELSE vout.val.d.audience.s \in matched

\* C17: for every input with a true pain-point flag the validator returns a
\* record whose intensity is null exactly when no intensity was provided,
\* and otherwise an integer in 1..10: the supplied value clamped to 1..10
\* when it coerces to an integer, and 5 when it does not.
C17_IntensityClamped ==
    (vout # NoValue /\ FlagTrue) =>
        /\ ~vout.raised
        /\ LET supplied == DictGet(vin, "intensity")
               intensity == vout.val.d.intensity
           IN  /\ (intensity = None) <=> (supplied = None)
               /\ supplied # None =>
                     /\ intensity.t = "int"
                     /\ intensity.n \in 1..10
                     /\ supplied = PyInt(99) => intensity.n = 10
                     /\ supplied \in {PyInt(0), PyInt(0 - 3)} => intensity.n = 1
                     /\ supplied = PyStr("7") => intensity.n = 7
                     /\ supplied \in {PyStr("abc"), PyInf} => intensity.n = 5

\* The values of is_pain_point that count as false.
FalseFlags == {PyBool(FALSE), None, PyInt(0), PyStr("")}

\* C18: the flag of the returned record is the truthy coercion of
\* is_pain_point, false when the key is missing; and for a false flag the
\* validator returns without raising a record whose other fields are all
\* null, whatever else the input carried.
C18_FlagShortCircuits ==
    (vout # NoValue /\ vin.t = "dict") =>
        LET missing == "is_pain_point" \notin DOMAIN vin.d
            false == missing \/ vin.d["is_pain_point"] \in FalseFlags
        IN  /\ ~vout.raised => vout.val.d.is_pain_point = PyBool(~false)
            /\ false =>
                  /\ ~vout.raised
                  /\ \A k \in ClassificationKeys \ {"is_pain_point"} :
                         vout.val.d[k] = None

\* C18 witness: an input with a false flag that carries a category and an
\* intensity, validated to the all-null record.
C18_Witness ==
    /\ vin = PyDict([is_pain_point |-> PyBool(FALSE),
                     category |-> PyStr("Housing"), intensity |-> PyInt(99)])
    /\ vout # NoValue
    /\ ~vout.raised
    /\ vout.val.d.category = None

(***************************************************************************)
(* The parser on its own: a reply text, and for a reply that wraps a JSON  *)
(* object the text of that object.                                         *)
(***************************************************************************)
MaxTextLen == 3

Alphabet ==
    {FENCE, TAG, " ", "{", "}", "[", "]", ":", ",", QUOTE, DIGIT, "a"}

ShortTexts ==
    UNION {[1..n -> Alphabet] : n \in 0..MaxTextLen}

\* The text of the object {"a": v}.
Member(v) == <<"{", QUOTE, "a", QUOTE, ":", " ">> \o v \o <<"}">>
Quoted(s) == <<QUOTE>> \o s \o <<QUOTE>>

ObjectTexts ==
    { <<"{", "}">>,
      Member(<<DIGIT>>),
      Member(Member(<<DIGIT>>)),
      Member(Quoted(<<"a">>)),
      Member(Quoted(<<"{">>)),
      Member(Quoted(<<"}">>)),
      Member(Quoted(<<"{", "a", "}">>)),
      Member(Quoted(<<FENCE>>)),
      Member(Quoted(<<FENCE, DIGIT, FENCE>>)) }

\* A reply that wraps the object in a fenced block, with prose around it.
Fenced(object, tagged, before, after) ==
    before \o <<FENCE>> \o (IF tagged THEN <<TAG>> ELSE <<>>) \o <<" ">>
           \o object \o <<" ", FENCE>> \o after

ProseBefore == {<<>>, <<"a", " ">>, <<"a", "{", "a", "}", " ">>}
ProseAfter  == {<<>>, <<" ", "a">>, <<" ", "{", "a", "}">>}

ParseInputs ==
    {[object |-> t, text |-> t] : t \in ShortTexts}
    \cup
    {[object |-> o, text |-> Fenced(o, tagged, before, after)] :
        o \in ObjectTexts, tagged \in BOOLEAN,
        before \in ProseBefore, after \in ProseAfter}

InitParseReply ==
    /\ InitStore
    /\ InitRun
    /\ InitVal
    /\ reply \in ParseInputs
    /\ parsed = NoValue
    /\ InitOther

\* The parser runs on the reply, and on the object by itself.
ParseReply ==
    /\ parsed = NoValue
    /\ parsed' = [kind |-> "parsed",
                  val |-> ExtractJson(reply.text),
                  ref |-> ExtractJson(reply.object)]
    /\ UNCHANGED <<reply, storeVars, runVars, valVars, otherVars>>

NextParse == ParseReply

SpecParse == InitParseReply /\ [][NextParse]_vars

\* C13: for every text the parser returns a key/value object or None, never
\* another JSON value.
C13_ObjectOrNone ==
    parsed.kind = "parsed" =>
        (parsed.val = None \/ parsed.val.t = "dict")

\* C14: a reply that wraps a JSON object in a fenced block, tagged or not,
\* with or without prose around it, parses to what the object parses to by
\* itself.
C14_FencedSameAsBare ==
    (parsed.kind = "parsed" /\ reply.text # reply.object) =>
        parsed.val = parsed.ref

(***************************************************************************)
(* The order of the steps of one run.  log holds the events of the run in  *)
(* the order the code produces them: the fetch, the progress callbacks,    *)
(* the backend calls and the rows saved.                                   *)
(***************************************************************************)
Events(ev) == {i \in 1..Len(log) : log[i].ev = ev}

\* C21 as stated: the classification of post i is persisted before the
\* backend call for post i+1 begins.
C21_PersistBeforeNextCall ==
    \A j \in Events("call") :
        log[j].b >= 2 =>
            \E i \in 1..(j - 1) : log[i].ev = "persist" /\ log[i].b = log[j].b - 1

\* C21: within one run posts go one at a time, in fetch order, through
\* CLASSIFY, PARSE and VALIDATE, and PERSIST is a second pass in the same
\* order: a row is saved only after the backend call for the last fetched
\* post has returned.
C21_ClassifyAllThenPersist ==
    /\ \A i \in 1..Len(calls) : calls[i].post_id = batch[i].id
    /\ \A j \in Events("call") : log[j].a = batch[log[j].b].id
    /\ \A i \in Events("persist") :
          /\ log[i].a = batch[log[i].b].id
          /\ Len(calls) = Len(batch)
          /\ \A j \in Events("call") : j < i
          /\ \A k \in Events("persist") : k < i => log[k].b < log[i].b

\* C21 witness: a run over two posts has saved the row of the first one.
C21_Witness ==
    /\ pc = "persist"
    /\ Len(batch) = 2
    /\ pidx = 1
    /\ Cardinality(Events("call")) = 2
    /\ Cardinality(Events("persist")) = 1

\* The backend calls made for one post in this run.
CallsFor(post_id) == {j \in Events("call") : log[j].a = post_id}

\* C22: when a run has ended, the backend has been called exactly once for
\* each fetched post, and the fetch happened exactly once, before the first
\* backend call.
C22_OneCallPerFetchedPost ==
    Ended =>
        /\ \A i \in 1..Len(batch) : Cardinality(CallsFor(batch[i].id)) = 1
        /\ Events("fetch") = {1}

\* C23 as stated: by the time classify_batch has returned the progress
\* callback has been invoked exactly once per post with (index, total), index
\* running 1..total in increasing order, and each invocation for index i
\* happens after post i's classification has completed.
C23_ProgressAfterClassification ==
    /\ \A j \in Events("progress") :
          \E c \in 1..(j - 1) : log[c].ev = "call" /\ log[c].b = log[j].a
    /\ pc \in {"persist", "done"} =>
          \A i \in 1..Len(batch) :
              Cardinality({j \in Events("progress") : log[j].a = i}) = 1

\* C23: the progress callback is invoked exactly once, with (index, total),
\* for each post the loop of classify_batch reaches (every post, once
\* classify_batch has returned), index running from 1 in increasing order,
\* and each invocation for index i happens before post i's classification
\* starts and after that of post i-1 has completed.
C23_ProgressBeforeClassification ==
    /\ \A j \in Events("progress") :
          /\ log[j].b = Len(batch)
          /\ log[j].a = Cardinality({k \in Events("progress") : k <= j})
          /\ log[j].a >= 2 =>
                \E c \in 1..(j - 1) : log[c].ev = "call" /\ log[c].b = log[j].a - 1
    /\ \A c \in Events("call") :
          /\ log[c - 1] = Event("progress", log[c].b, Len(batch))
          /\ Cardinality({j \in Events("progress") : log[j].a = log[c].b}) = 1
    /\ pc \in {"persist", "done"} =>
          {log[j].a : j \in Events("progress")} = 1..Len(batch)

\* C23 witness: classify_batch has returned after two posts, the callback was
\* invoked with (1, 2) and (2, 2), each time right before the post's call.
C23_Witness ==
    /\ pc = "persist"
    /\ Len(batch) = 2
    /\ \E j, k \in Events("progress") :
          /\ j < k
          /\ log[j] = Event("progress", 1, 2)
          /\ log[k] = Event("progress", 2, 2)
          /\ log[k - 1].ev = "call"

\* The rows of the posts of the batch whose flag is true.
PainRows ==
    {c \in classifications :
        /\ \E i \in 1..Len(batch) : batch[i].id = c.post_id
        /\ c.is_pain_point = PyBool(TRUE)}

\* C24: when a run completes, 'classified' equals the number of posts
\* fetched and the number of rows the run wrote, 'pain_points' equals the
\* number of those rows whose flag is true, pain_points <= classified <=
\* limit, and a run that fetched no posts reports 0 and 0 and has made no
\* backend call.
C24_CountsReported ==
    pc = "done" =>
        /\ ret.classified = Len(batch)
        /\ ret.classified = Cardinality(Events("persist"))
        /\ ret.pain_points = Cardinality(PainRows)
        /\ ret.pain_points <= ret.classified
        /\ ret.classified <= run_limit
        /\ batch = <<>> => (ret = Return(0, 0) /\ Events("call") = {})

(***************************************************************************)
(* The posts table under every operation of the store.                     *)
(***************************************************************************)

\* C25: no operation of the core (a duplicate insert_post, an
\* insert_classification that creates or replaces a row,
\* get_unclassified_posts) changes the id, the fingerprint or any other
\* attribute of a stored post, or removes it.
C25_StoredPostsImmutable ==
    [][ /\ Len(posts') >= Len(posts)
        /\ \A i \in 1..Len(posts) : posts'[i] = posts[i] ]_vars

\* C25 witness: a post has a row that replaced an earlier one, and the post
\* has since been handed to insert_post again at a later time and reported
\* as a duplicate.
C25_Witness ==
    /\ last.call = "insert_post"
    /\ last.info.stored
    /\ last.ret = None
    /\ posts = last.info.pre
    /\ \E i \in 1..Len(posts) :
          /\ posts[i].content_hash = last.info.content_hash
          /\ posts[i].scraped_at < MaxTime
          /\ posts[i].id \in DOMAIN latest
          /\ RowsOf(posts[i].id) = {RowOf(Positive(posts[i].id, "housing", PyList(<<>>)))}

\* Both classify_post implementations applied to a post and a backend outcome.
Ollama(post, outcome) ==
    classify_post(post.title, post.content, post.source, outcome)
Groq(post, outcome) ==
    CloudClassifier_classify_post(post.title, post.content, post.source, outcome)

\* C26: for the post about to be classified and each backend outcome (the
\* same reply text or the same raised error) PainPointClassifier.classify_post
\* and CloudClassifier.classify_post end the same way with identical records;
\* the result just appended by classify_batch is that record; and the rows a
\* completed run has written are the rows either backend produces.
C26_BackendsInterchangeable ==
    /\ (pc = "batch" /\ idx < Len(batch)) =>
          \A outcome \in BackendOutcomes :
              Ollama(batch[idx + 1], outcome) = Groq(batch[idx + 1], outcome)
    /\ (pc = "batch" /\ idx > 0) =>
          /\ results[idx] = <<batch[idx].id, Ollama(batch[idx], calls[idx].outcome).val>>
          /\ results[idx] = <<batch[idx].id, Groq(batch[idx], calls[idx].outcome).val>>
    /\ pc = "done" =>
          \A i \in 1..Len(batch) :
              /\ RowsOf(batch[i].id) =
                    {RowOf(PersistArgs(batch[i].id,
                                       Ollama(batch[i], calls[i].outcome).val))}
              /\ RowsOf(batch[i].id) =
                    {RowOf(PersistArgs(batch[i].id,
                                       Groq(batch[i], calls[i].outcome).val))}

\* C26 witness: a completed run over two posts, one whose backend call raised
\* and one whose reply was a pain point, has written both rows.
C26_Witness ==
    /\ pc = "done"
    /\ Len(batch) = 2
    /\ pidx = 2
    /\ \E i, j \in 1..2 :
          /\ calls[i].outcome.kind = "error"
          /\ calls[j].outcome = BackendReply(Text("fenced", DocPain))
          /\ RowsOf(batch[i].id) # {}
          /\ \E c \in RowsOf(batch[j].id) : c.is_pain_point = PyBool(TRUE)

(***************************************************************************)
(* Two writers in insert_post.  post_exists and the INSERT each open their  *)
(* own connection, so another writer's statements can fall between the     *)
(* check and the insert of one call.                                       *)
(***************************************************************************)
Writers == {1, 2}

\* The triples the two writers are handed.
WriterInputs ==
    { [source |-> Chars(<<"r">>), title |-> Chars(<<"t">>), content |-> Chars(<<"b">>)],
      [source |-> Chars(<<"r">>), title |-> None, content |-> Chars(<<"b">>)],
      [source |-> Chars(<<"r">>), title |-> Chars(<<"t">>), content |-> Chars(<<"c">>)] }

WriterHash(w) ==
    get_content_hash(writers[w].args.source, writers[w].args.title,
                     writers[w].args.content)

WritersFinished == \A w \in DOMAIN writers : writers[w].pc \in {"returned", "raised"}

\* Both writers call insert_post with the same (source, title, content).
StartWriters ==
    /\ WritersFinished
    /\ Len(posts) < MaxPosts
    /\ \E p \in WriterInputs :
          writers' = [w \in Writers |->
                        [pc |-> "check", args |-> p, ret |-> [kind |-> "none"]]]
    /\ UNCHANGED <<storeVars, runVars, valVars, parseVars, runs, tw, gp>>

\* content_hash = get_content_hash(...); if post_exists(content_hash): return None
WriterCheck(w) ==
    /\ w \in DOMAIN writers
    /\ writers[w].pc = "check"
    /\ writers' = IF post_exists(WriterHash(w))
                  THEN [writers EXCEPT ![w].pc = "returned",
                                       ![w].ret = [kind |-> "return", val |-> None]]
                  ELSE [writers EXCEPT ![w].pc = "insert"]
    /\ UNCHANGED <<storeVars, runVars, valVars, parseVars, runs, tw, gp>>

\* The INSERT, conn.commit() and return cursor.lastrowid; an exception of
\* cursor.execute leaves insert_post uncaught.
WriterInsert(w) ==
    /\ w \in DOMAIN writers
    /\ writers[w].pc = "insert"
    /\ \E now \in Times :
          /\ NowOk(now)
          /\ LET a == writers[w].args
                 r == SqlInsertPost(WriterHash(w), a.source, a.title, a.content, now)
             IN  /\ posts' = r.table
                 /\ writers' =
                      IF r.raised
                      THEN [writers EXCEPT ![w].pc = "raised",
                                           ![w].ret = [kind |-> "raise", exc |-> r.exc]]
                      ELSE [writers EXCEPT ![w].pc = "returned",
                                           ![w].ret = [kind |-> "return",
                                                       val |-> PyInt(r.lastrowid)]]
    /\ UNCHANGED <<classifications, last, latest, runVars, valVars, parseVars,
                   runs, tw, gp>>

NextWriters ==
    \/ StartWriters
    \/ \E w \in Writers : WriterCheck(w)
    \/ \E w \in Writers : WriterInsert(w)

SpecWriters == Init /\ [][NextWriters]_vars

\* The stored posts that carry the fingerprint of writer w's triple.
StoredFor(w) == {i \in 1..Len(posts) : posts[i].content_hash = WriterHash(w)}

\* C27: under any interleaving of two writers calling insert_post with the
\* same triple, no call ends in a raised error, and once both calls have
\* ended exactly one post with the fingerprint is stored and at least one
\* call has returned the duplicate sentinel None.
C27_OneStoredOtherDuplicate ==
    /\ \A w \in DOMAIN writers : writers[w].pc # "raised"
    /\ (writers # <<>> /\ WritersFinished) =>
          /\ \A w \in Writers : Cardinality(StoredFor(w)) = 1
          /\ \E w \in Writers : writers[w].ret = [kind |-> "return", val |-> None]

(***************************************************************************)
(* Two runs of classify_unclassified against one store.  Each call of the  *)
(* store (get_unclassified_posts, insert_classification) is one SQL        *)
(* statement on its own connection and is a single step; the steps of the  *)
(* two runs interleave freely.                                             *)
(***************************************************************************)
MaxConcPosts == 1

Runs == {1, 2}

StartedRun == [pc |-> "fetch", batch |-> <<>>, results |-> <<>>, pidx |-> 0]

\* What the backend does for the posts of concurrent runs.
ConcOutcomes ==
    { BackendError(<<"timed out">>),
      BackendReply(Words(<<"Sorry, I cannot help with that.">>)),
      BackendReply(Text("bare", DocNotPain)),
      BackendReply(Text("bare", DocPain)) }

\* A scraper stores a post while runs may be under way.
RunsScrape ==
    /\ Len(posts) < MaxConcPosts
    /\ \E now \in Times, title \in {Chars(<<"t">>), None} :
          /\ NowOk(now)
          /\ insert_post(Chars(<<"r">>), title,
                         Chars(Rep("b", Len(posts) + 1)), now)
    /\ UNCHANGED <<classifications, latest, runVars, valVars, parseVars, otherVars>>

\* Two processes enter classify_unclassified.
StartRuns ==
    /\ runs = <<>>
    /\ runs' = [r \in Runs |-> StartedRun]
    /\ UNCHANGED <<storeVars, runVars, valVars, parseVars, writers, tw, gp>>

\* posts = get_unclassified_posts(limit=limit), the early return on an empty
\* result, and the construction of the classifier.
RunFetch(r) ==
    /\ r \in DOMAIN runs
    /\ runs[r].pc = "fetch"
    /\ \E l \in Limits : \E b \in get_unclassified_posts(l) : \E c \in Constructors :
          runs' = [runs EXCEPT ![r].batch = b,
                               ![r].pc = IF b = <<>> THEN "done"
                                         ELSE IF c.raised THEN "raised"
                                         ELSE "batch"]
    /\ UNCHANGED <<storeVars, runVars, valVars, parseVars, writers, tw, gp>>

\* One iteration of classify_batch in run r; classify_batch returns after
\* the last post.
RunClassify(r) ==
    /\ r \in DOMAIN runs
    /\ runs[r].pc = "batch"
    /\ \E outcome \in ConcOutcomes, backend \in Backends :
          LET i == Len(runs[r].results) + 1
              post == runs[r].batch[i]
              c == ClassifyWith(backend, post, outcome)
          IN  runs' =
                IF c.raised
                THEN [runs EXCEPT ![r].pc = "raised"]
                ELSE [runs EXCEPT ![r].results = Append(@, <<post.id, c.val>>),
                                  ![r].pc = IF i = Len(runs[r].batch)
                                            THEN "persist" ELSE "batch"]
    /\ UNCHANGED <<storeVars, runVars, valVars, parseVars, writers, tw, gp>>

\* One iteration of the loop that saves the results of run r;
\* classify_unclassified returns after the last row.
RunPersist(r) ==
    /\ r \in DOMAIN runs
    /\ runs[r].pc = "persist"
    /\ LET i == runs[r].pidx + 1
           post_id == runs[r].results[i][1]
           c == runs[r].results[i][2]
       IN  /\ InsertClassificationStep(PersistArgs(post_id, c))
           /\ runs' =
                IF last'.raised
                THEN [runs EXCEPT ![r].pc = "raised"]
                ELSE [runs EXCEPT ![r].pidx = i,
                                  ![r].pc = IF i = Len(runs[r].results)
                                            THEN "done" ELSE "persist"]
    /\ UNCHANGED <<posts, runVars, valVars, parseVars, writers, tw, gp>>

NextRuns ==
    \/ RunsScrape
    \/ StartRuns
    \/ \E r \in Runs : RunFetch(r)
    \/ \E r \in Runs : RunClassify(r)
    \/ \E r \in Runs : RunPersist(r)

SpecRuns == Init /\ [][NextRuns]_vars

\* The rows run r has written so far.
WrittenBy(r) ==
    {RowOf(PersistArgs(runs[r].results[i][1], runs[r].results[i][2])) :
        i \in 1..runs[r].pidx}

\* C28: while two runs execute against the same store, in every reachable
\* state there is at most one classification row per post, and each row is,
\* in all its fields, a record one of the runs has written.
C28_OneWholeRowPerPost ==
    /\ \A i \in 1..Len(posts) : Cardinality(RowsOf(posts[i].id)) <= 1
    /\ \A c \in classifications :
          /\ \E i \in 1..Len(posts) : posts[i].id = c.post_id
          /\ \E r \in DOMAIN runs : c \in WrittenBy(r)

\* C28 witness: both runs fetched and classified the same post with different
\* results, both have saved their row, and the row in the store is the one
\* of the second run alone.
C28_Witness ==
    /\ runs # <<>>
    /\ \A r \in Runs : runs[r].pidx = 1 /\ runs[r].batch[1].id = 1
    /\ WrittenBy(1) # WrittenBy(2)
    /\ classifications = WrittenBy(2)

(***************************************************************************)
(* The Twitter scraper.  tw is one TwitterScraper instance: its            *)
(* _rate_limit_hit flag, whether it holds a driver, where its caller is,   *)
(* and a history of what its searches did: pages navigated to, tweets      *)
(* yielded, calls that returned at the flag check.                         *)
(***************************************************************************)
MaxTwCalls == 2
MaxTweets == 2
NumHashtags == 3
KeywordsSearched == 2

\* TwitterScraper.__init__
TwitterScraper_init ==
    [pc |-> "ready", rate_limit_hit |-> FALSE, driver |-> FALSE,
     caller |-> "none", tag |-> 0, kw |-> 0, left |-> 0, calls |-> 0,
     navigations |-> 0, yielded |-> 0, skipped |-> 0]

\* search_tweets that never looks at the flag.
SearchSkipped_never(rate_limit_hit) == FALSE

\* search_tweets: if self._rate_limit_hit: ... return
SearchSkipped(rate_limit_hit) == rate_limit_hit

\* Where control goes when search_tweets is exhausted: back to the loop of
\* the caller, or to the direct caller.
AfterSearch(caller) ==
    IF caller = "hashtags" THEN "hashtags"
    ELSE IF caller = "keywords" THEN "keywords"
    ELSE "ready"

\* What loading the search page does: the page shows the rate limit or the
\* login wall, the driver times out, something else fails, or tweet elements
\* are found.
PageOutcomes == {"wall", "timeout", "error", "tweets"}

TwInit ==
    /\ tw.pc = "none"
    /\ tw' = TwitterScraper_init
    /\ UNCHANGED <<storeVars, runVars, valVars, parseVars, writers, runs, gp>>

\* The first next() on search_tweets(query): the check of the flag.
SearchEnter(caller, t) ==
    IF SearchSkipped(t.rate_limit_hit)
    THEN [t EXCEPT !.pc = AfterSearch(caller), !.skipped = @ + 1]
    ELSE [t EXCEPT !.pc = "navigate", !.caller = caller]

\* A caller other than scrape_all iterates search_tweets(query).
TwSearchDirect ==
    /\ tw.pc = "ready"
    /\ tw.calls < MaxTwCalls
    /\ tw' = SearchEnter("direct", [tw EXCEPT !.calls = @ + 1])
    /\ UNCHANGED <<storeVars, runVars, valVars, parseVars, writers, runs, gp>>

\* scrape_all is called and starts iterating scrape_hashtags.
TwScrapeAll ==
    /\ tw.pc = "ready"
    /\ tw.calls < MaxTwCalls
    /\ tw' = [tw EXCEPT !.pc = "hashtags", !.tag = 0, !.kw = 0, !.calls = @ + 1]
    /\ UNCHANGED <<storeVars, runVars, valVars, parseVars, writers, runs, gp>>

\* The head of the loop of scrape_hashtags: break on the flag, else search
\* the next hashtag.
TwHashtagLoop ==
    /\ tw.pc = "hashtags"
    /\ tw' = IF tw.tag = NumHashtags \/ tw.rate_limit_hit
             THEN [tw EXCEPT !.pc = "keywords_check"]
             ELSE SearchEnter("hashtags", [tw EXCEPT !.tag = @ + 1])
    /\ UNCHANGED <<storeVars, runVars, valVars, parseVars, writers, runs, gp>>

\* _init_driver, driver.get(search_url), the look at page_source, the scroll
\* and find_elements; TimeoutException and the wall set the flag, any other
\* exception (a driver that cannot be started included) only ends the search.
TwNavigate ==
    /\ tw.pc = "navigate"
    /\ \/ /\ ~tw.driver
          /\ tw' = [tw EXCEPT !.pc = AfterSearch(tw.caller)]
       \/ \E o \in PageOutcomes, n \in 0..MaxTweets :
             /\ o # "tweets" => n = 0
             /\ tw' = [tw EXCEPT
                         !.driver = TRUE,
                         !.navigations = @ + 1,
                         !.rate_limit_hit = @ \/ o \in {"wall", "timeout"},
                         !.left = n,
                         !.pc = IF o = "tweets" THEN "yielding"
                                ELSE AfterSearch(tw.caller)]
    /\ UNCHANGED <<storeVars, runVars, valVars, parseVars, writers, runs, gp>>

\* yield {...}: one tweet reaches the caller.
TwYield ==
    /\ tw.pc = "yielding"
    /\ tw.left > 0
    /\ tw' = [tw EXCEPT !.left = @ - 1, !.yielded = @ + 1]
    /\ UNCHANGED <<storeVars, runVars, valVars, parseVars, writers, runs, gp>>

\* The tweet elements are exhausted: search_tweets ends.
TwSearchEnd ==
    /\ tw.pc = "yielding"
    /\ tw.left = 0
    /\ tw' = [tw EXCEPT !.pc = AfterSearch(tw.caller)]
    /\ UNCHANGED <<storeVars, runVars, valVars, parseVars, writers, runs, gp>>

\* scrape_all: if not self._rate_limit_hit: the keyword loop
TwKeywordsCheck ==
    /\ tw.pc = "keywords_check"
    /\ tw' = [tw EXCEPT !.pc = IF ~tw.rate_limit_hit THEN "keywords" ELSE "close"]
    /\ UNCHANGED <<storeVars, runVars, valVars, parseVars, writers, runs, gp>>

\* The head of the loop over TWITTER_CONFIG["keywords"][:2].
TwKeywordLoop ==
    /\ tw.pc = "keywords"
    /\ tw' = IF tw.kw = KeywordsSearched
             THEN [tw EXCEPT !.pc = "close"]
             ELSE SearchEnter("keywords", [tw EXCEPT !.kw = @ + 1])
    /\ UNCHANGED <<storeVars, runVars, valVars, parseVars, writers, runs, gp>>

\* finally: self._close_driver(); scrape_all returns.
TwClose ==
    /\ tw.pc = "close"
    /\ tw' = [tw EXCEPT !.pc = "ready", !.driver = FALSE]
    /\ UNCHANGED <<storeVars, runVars, valVars, parseVars, writers, runs, gp>>

NextTwitter ==
    \/ TwInit
    \/ TwSearchDirect
    \/ TwScrapeAll
    \/ TwHashtagLoop
    \/ TwNavigate
    \/ TwYield
    \/ TwSearchEnd
    \/ TwKeywordsCheck
    \/ TwKeywordLoop
    \/ TwClose

SpecTwitter == Init /\ [][NextTwitter]_vars

\* C29: once _rate_limit_hit is true it stays true for the instance, no
\* search_tweets call navigates to a search page or yields a tweet from then
\* on, and a scrape_all that reaches its keyword phase with the flag set goes
\* straight to closing the driver.
C29_RateLimitLatch ==
    [][ (tw.pc # "none" /\ tw.rate_limit_hit) =>
            /\ tw'.rate_limit_hit
            /\ tw'.navigations = tw.navigations
            /\ tw'.yielded = tw.yielded
            /\ tw'.pc \notin {"navigate", "yielding"}
            /\ tw.pc = "keywords_check" => tw'.pc = "close" ]_vars

\* C29 witness: tweets were yielded, then a search hit the wall or timed out
\* during the hashtag phase, and scrape_all has closed without its keyword
\* phase; a later direct search returned at the flag check.
C29_Witness ==
    /\ tw.pc = "ready"
    /\ tw.rate_limit_hit
    /\ tw.yielded >= 1
    /\ tw.tag >= 2
    /\ tw.kw = 0
    /\ tw.skipped >= 1

(***************************************************************************)
(* _get_page of the news and forum scrapers (the same code in both).  gp   *)
(* is one scraper: the call under way with its loop variable and result,   *)
(* the HTTP attempts and sleeps of that call in order, and the time slept  *)
(* since the scraper was made.                                             *)
(***************************************************************************)
MaxPageCalls == 2
max_retries == 3
retry_delay == 5

Urls == {"u1", "u2"}
Pages == {"<html>a</html>", "<html>b</html>"}

\* session.get / raise_for_status / BeautifulSoup: a page, a
\* requests.RequestException, or an exception of another class.
GetOutcomes ==
    {[kind |-> "page", text |-> p] : p \in Pages}
        \cup {[kind |-> "RequestException"], [kind |-> "other"]}

\* A handler that sleeps after every failed attempt.
SleepsAfter_every_attempt(attempt) == TRUE

\* if attempt < SCRAPE_CONFIG["max_retries"] - 1: time.sleep(...)
SleepsAfter(attempt) == attempt < max_retries - 1

\* NewsScraper.__init__ / HWZScraper.__init__
GpInit ==
    /\ gp.pc = "none"
    /\ gp' = [pc |-> "idle", calls |-> 0, url |-> "", attempt |-> 0,
              trace |-> <<>>, result |-> None, slept |-> 0]
    /\ UNCHANGED <<storeVars, runVars, valVars, parseVars, writers, runs, tw>>

\* self._get_page(url) is called: the loop starts with attempt = 0.
GetPageCall ==
    /\ gp.pc = "idle"
    /\ gp.calls < MaxPageCalls
    /\ \E url \in Urls :
          gp' = [gp EXCEPT !.pc = "loop", !.calls = @ + 1, !.url = url,
                           !.attempt = 0, !.trace = <<>>, !.result = None]
    /\ UNCHANGED <<storeVars, runVars, valVars, parseVars, writers, runs, tw>>

\* One pass of the body of the loop up to the sleep.
GetPageAttempt ==
    /\ gp.pc = "loop"
    /\ gp.attempt < max_retries
    /\ \E o \in GetOutcomes :
          LET t == Append(gp.trace, [ev |-> "get", attempt |-> gp.attempt,
                                     outcome |-> o.kind])
          IN  gp' =
                IF o.kind = "page"
                THEN [gp EXCEPT !.trace = t, !.pc = "returned",
                                !.result = [url |-> gp.url, text |-> o.text]]
                ELSE IF o.kind = "other"
                THEN [gp EXCEPT !.trace = t, !.pc = "raised"]
                ELSE IF SleepsAfter(gp.attempt)
                THEN [gp EXCEPT !.trace = t, !.pc = "sleep"]
                ELSE [gp EXCEPT !.trace = t, !.attempt = @ + 1]
    /\ UNCHANGED <<storeVars, runVars, valVars, parseVars, writers, runs, tw>>

\* time.sleep(SCRAPE_CONFIG["retry_delay"]), then the next pass.
GetPageSleep ==
    /\ gp.pc = "sleep"
    /\ gp' = [gp EXCEPT !.trace = Append(@, [ev |-> "sleep", attempt |-> gp.attempt,
                                             outcome |-> ""]),
                        !.slept = @ + retry_delay,
                        !.attempt = @ + 1,
                        !.pc = "loop"]
    /\ UNCHANGED <<storeVars, runVars, valVars, parseVars, writers, runs, tw>>

\* The range is exhausted: return None.
GetPageGiveUp ==
    /\ gp.pc = "loop"
    /\ gp.attempt >= max_retries
    /\ gp' = [gp EXCEPT !.pc = "returned", !.result = None]
    /\ UNCHANGED <<storeVars, runVars, valVars, parseVars, writers, runs, tw>>

\* The caller goes on with what _get_page gave it.
GetPageDone ==
    /\ gp.pc \in {"returned", "raised"}
    /\ gp' = [gp EXCEPT !.pc = "idle"]
    /\ UNCHANGED <<storeVars, runVars, valVars, parseVars, writers, runs, tw>>

NextGetPage ==
    \/ GpInit
    \/ GetPageCall
    \/ GetPageAttempt
    \/ GetPageSleep
    \/ GetPageGiveUp
    \/ GetPageDone

SpecGetPage == Init /\ [][NextGetPage]_vars

Gets == {i \in 1..Len(gp.trace) : gp.trace[i].ev = "get"}
Sleeps == {i \in 1..Len(gp.trace) : gp.trace[i].ev = "sleep"}

\* C30: one call of _get_page makes at most max_retries HTTP attempts; it
\* returns the page of its first successful attempt and attempts nothing
\* after it; it returns None when max_retries attempts have failed with a
\* request error; every wait lasts retry_delay, follows a failed attempt and
\* is followed by another attempt once the call has ended, so there is none
\* after the last attempt.
C30_BoundedRetries ==
    gp.pc # "none" =>
        /\ Cardinality(Gets) <= max_retries
        /\ \A i \in Gets : gp.trace[i].outcome = "page" => i = Len(gp.trace)
        /\ \A i \in Sleeps :
              /\ i > 1
              /\ gp.trace[i - 1].ev = "get"
              /\ gp.trace[i - 1].outcome = "RequestException"
              /\ gp.pc \in {"returned", "raised", "idle"} =>
                    (i < Len(gp.trace) /\ gp.trace[i + 1].ev = "get")
        /\ gp.slept <= gp.calls * (max_retries - 1) * retry_delay
        /\ gp.pc = "returned" =>
              IF gp.result = None
              THEN /\ Cardinality(Gets) = max_retries
                   /\ \A i \in Gets : gp.trace[i].outcome = "RequestException"
                   /\ Cardinality(Sleeps) = max_retries - 1
              ELSE /\ gp.trace[Len(gp.trace)].outcome = "page"
                   /\ gp.result.url = gp.url
                   /\ \A i \in Gets \ {Len(gp.trace)} :
                         gp.trace[i].outcome = "RequestException"

\* C30 witness: the second call has returned None after three attempts that
\* failed with a request error and two waits, the first call having waited
\* twice as well.
C30_Witness ==
    /\ gp.pc = "returned"
    /\ gp.calls = 2
    /\ gp.result = None
    /\ Cardinality(Gets) = max_retries
    /\ gp.slept = 2 * (max_retries - 1) * retry_delay

====
